---- MODULE Spec2Model ----
(***************************************************************************)
(* The modernized CSV pipeline of old_code_modernized.py: read_csv,        *)
(* filter_by_column, print_data and main.                                  *)
(*                                                                         *)
(* A Row is a sequence of field strings, a Table a sequence of Rows.       *)
(* Python list objects live in `heap` (a sequence of list values, the id   *)
(* of a list being its index), so that "a new list" and "the same list"    *)
(* can be told apart.  The id 0 stands for "no object" (nothing returned). *)
(***************************************************************************)
EXTENDS Integers, Sequences, FiniteSets, TLC

VARIABLES
    pc,               \* position of the running function / harness
    heap,             \* list objects: heap[id] is the list's current value
    data,             \* id of the Table bound to `data` (0: unbound)
    column_index,     \* filter_by_column's column_index argument
    target_value,     \* filter_by_column's target_value argument
    filtered_data,    \* id of the list returned by filter_by_column (0: none)
    raised,           \* the exception that left the last call ("None": none)
    input_before,     \* history: value of the input Table when the call began
    filtered_again,   \* id returned by the second filter call (0: none)
    raised_again,     \* exception of the second filter call
    title,            \* print_data's title argument
    stdout,           \* lines written by print(), one entry per call
    log,              \* records emitted through logger: <<level, message>>
    calls,            \* history: component functions entered, in order
    path_kind,        \* what the file system holds at the path
    file_rows,        \* the rows csv.reader yields from the file
    file_fault,       \* the error met after file_rows ("None": end of file)
    file_open,        \* whether the handle opened by read_csv is open
    rows_read         \* the rows collected so far by read_csv's comprehension

vars == <<pc, heap, data, column_index, target_value, filtered_data, raised,
          input_before, filtered_again, raised_again, title, stdout, log,
          calls, path_kind, file_rows, file_fault, file_open, rows_read>>

(***************************************************************************)
(* Bounds of the model.                                                    *)
(***************************************************************************)
MaxRows == 3
MaxWidth == 2

Fields == {"Books", "books"}

RECURSIVE SeqsUpTo(_, _)
SeqsUpTo(S, n) ==
    IF n = 0 THEN {<<>>}
    ELSE LET shorter == SeqsUpTo(S, n - 1)
         IN  shorter \cup {Append(s, x) : s \in {t \in shorter : Len(t) = n - 1}, x \in S}

Rows == SeqsUpTo(Fields, MaxWidth)
Tables == SeqsUpTo(Rows, MaxRows)
ColumnIndexes == (0 - 1) .. MaxWidth

(***************************************************************************)
(* filter_by_column                                                        *)
(***************************************************************************)

\* The comprehension's condition: len(row) > column_index and
\* row[column_index] == target_value (Python indexes from 0).
RowMatchesUnguarded(row, i, v) == row[i + 1] = v
RowMatches(row, i, v) == Len(row) > i /\ row[i + 1] = v

\* A new list object holding value `val`; its id is the next free index.
Alloc(h, val) == [heap |-> Append(h, val), id |-> Len(h) + 1]

FilterResult(h, id, exc, lg) == [heap |-> h, ret |-> id, raised |-> exc, log |-> lg]

\* Faulty variants of filter_by_column; the properties below are shown to
\* tell each of them from the function.
filter_by_column_in_place(h, d, i, v) ==
    IF h[d] = <<>> THEN
        LET a == Alloc(h, <<>>)
        IN  FilterResult(a.heap, a.id, "None", <<<<"WARNING", "No data provided for filtering">>>>)
    ELSE IF i < 0 THEN
        FilterResult(h, 0, "ValueError", <<<<"ERROR", "Invalid column index">>>>)
    ELSE IF i >= Len(h[d][1]) THEN
        FilterResult(h, 0, "IndexError", <<<<"ERROR", "Column index out of range">>>>)
    ELSE
        FilterResult([h EXCEPT ![d] = SelectSeq(h[d], LAMBDA row : RowMatches(row, i, v))],
                     d, "None", <<<<"INFO", "Filtered rows">>>>)

filter_by_column_empty_raises(h, d, i, v) ==
    IF h[d] = <<>> THEN
        FilterResult(h, 0, "ValueError", <<<<"ERROR", "No data provided for filtering">>>>)
    ELSE IF i < 0 THEN
        FilterResult(h, 0, "ValueError", <<<<"ERROR", "Invalid column index">>>>)
    ELSE IF i >= Len(h[d][1]) THEN
        FilterResult(h, 0, "IndexError", <<<<"ERROR", "Column index out of range">>>>)
    ELSE
        LET a == Alloc(h, SelectSeq(h[d], LAMBDA row : RowMatches(row, i, v)))
        IN  FilterResult(a.heap, a.id, "None", <<<<"INFO", "Filtered rows">>>>)

filter_by_column_off_by_one(h, d, i, v) ==
    IF h[d] = <<>> THEN
        LET a == Alloc(h, <<>>)
        IN  FilterResult(a.heap, a.id, "None", <<<<"WARNING", "No data provided for filtering">>>>)
    ELSE IF i < 0 THEN
        FilterResult(h, 0, "ValueError", <<<<"ERROR", "Invalid column index">>>>)
    ELSE IF i > Len(h[d][1]) THEN
        FilterResult(h, 0, "IndexError", <<<<"ERROR", "Column index out of range">>>>)
    ELSE
        LET a == Alloc(h, SelectSeq(h[d], LAMBDA row : RowMatches(row, i, v)))
        IN  FilterResult(a.heap, a.id, "None", <<<<"INFO", "Filtered rows">>>>)

\* as old_code.py's filter: row[index] without the length test
filter_by_column_no_length_test(h, d, i, v) ==
    IF h[d] = <<>> THEN
        LET a == Alloc(h, <<>>)
        IN  FilterResult(a.heap, a.id, "None", <<<<"WARNING", "No data provided for filtering">>>>)
    ELSE IF i < 0 THEN
        FilterResult(h, 0, "ValueError", <<<<"ERROR", "Invalid column index">>>>)
    ELSE IF i >= Len(h[d][1]) THEN
        FilterResult(h, 0, "IndexError", <<<<"ERROR", "Column index out of range">>>>)
    ELSE IF \E k \in 1 .. Len(h[d]) : Len(h[d][k]) <= i THEN
        FilterResult(h, 0, "IndexError", <<<<"ERROR", "Error filtering data">>>>)
    ELSE
        LET a == Alloc(h, SelectSeq(h[d], LAMBDA row : RowMatchesUnguarded(row, i, v)))
        IN  FilterResult(a.heap, a.id, "None", <<<<"INFO", "Filtered rows">>>>)

\* filter_by_column(data, column_index, target_value) on the list with id d.
\* The checks run in the code's order: empty data first (returns a new empty
\* list), then the negative index, then the index against the first row's
\* width, then the comprehension, which builds a new list.  Inside the try
\* block column_index is within 0 .. len(data[0]) - 1 and every row access
\* is guarded by the length test, so the except clause is never entered.
filter_by_column(h, d, i, v) ==
    IF h[d] = <<>> THEN
        LET a == Alloc(h, <<>>)
        IN  FilterResult(a.heap, a.id, "None", <<<<"WARNING", "No data provided for filtering">>>>)
    ELSE IF i < 0 THEN
        FilterResult(h, 0, "ValueError", <<<<"ERROR", "Invalid column index">>>>)
    ELSE IF i >= Len(h[d][1]) THEN
        FilterResult(h, 0, "IndexError", <<<<"ERROR", "Column index out of range">>>>)
    ELSE
        LET a == Alloc(h, SelectSeq(h[d], LAMBDA row : RowMatches(row, i, v)))
        IN  FilterResult(a.heap, a.id, "None", <<<<"INFO", "Filtered rows">>>>)

(***************************************************************************)
(* Specification SpecFilter: filter_by_column applied to every bounded     *)
(* Table, column index and target value, and then once more to its own     *)
(* result.                                                                 *)
(***************************************************************************)
InitFilter ==
    /\ pc = "filter_call"
    /\ \E T \in Tables : heap = <<T>> /\ input_before = T
    /\ data = 1
    /\ column_index \in ColumnIndexes
    /\ target_value \in Fields
    /\ filtered_data = 0
    /\ raised = "None"
    /\ filtered_again = 0
    /\ raised_again = "None"
    /\ title = ""
    /\ stdout = <<>>
    /\ log = <<>>
    /\ calls = <<>>
    /\ path_kind = "file"
    /\ file_rows = <<>>
    /\ file_fault = "None"
    /\ file_open = FALSE
    /\ rows_read = <<>>

FilterCall ==
    /\ pc = "filter_call"
    /\ LET r == filter_by_column(heap, data, column_index, target_value)
       IN  /\ heap' = r.heap
           /\ filtered_data' = r.ret
           /\ raised' = r.raised
           /\ log' = log \o r.log
           /\ pc' = IF r.raised = "None" THEN "filter_returned" ELSE "filter_raised"
    /\ calls' = Append(calls, "filter_by_column")
    /\ UNCHANGED <<data, column_index, target_value, input_before, filtered_again,
                   raised_again, title, stdout, path_kind, file_rows, file_fault,
                   file_open, rows_read>>

\* the caller filters the returned Table again with the same criterion
FilterAgain ==
    /\ pc = "filter_returned"
    /\ LET r == filter_by_column(heap, filtered_data, column_index, target_value)
       IN  /\ heap' = r.heap
           /\ filtered_again' = r.ret
           /\ raised_again' = r.raised
           /\ log' = log \o r.log
    /\ pc' = "filter_again_done"
    /\ calls' = Append(calls, "filter_by_column")
    /\ UNCHANGED <<data, column_index, target_value, input_before, filtered_data,
                   raised, title, stdout, path_kind, file_rows, file_fault,
                   file_open, rows_read>>

NextFilter == FilterCall \/ FilterAgain

SpecFilter == InitFilter /\ [][NextFilter]_vars

(***************************************************************************)
(* Properties of filter_by_column, checked under SpecFilter.               *)
(***************************************************************************)
FilterCalled == pc \in {"filter_returned", "filter_raised", "filter_again_done"}

\* Positions (1-based) of the rows of T that have more than i fields and
\* whose field i equals v.
QualifyingPositions(T, i, v) ==
    {k \in 1 .. Len(T) : Len(T[k]) > i /\ T[k][i + 1] = v}

\* R is the subsequence of T at the positions P, in T's order: the j-th
\* element of R is the row at the j-th smallest position of P.
IsSubsequenceAt(R, T, P) ==
    /\ Len(R) = Cardinality(P)
    /\ \A j \in 1 .. Len(R) :
          \E k \in P : Cardinality({m \in P : m <= k}) = j /\ R[j] = T[k]

ValidCall == input_before # <<>> /\ column_index >= 0 /\ column_index < Len(input_before[1])

\* C1: for a non-empty Table and 0 <= column_index < width of the first row,
\* filter_by_column raises nothing and returns exactly the rows that have
\* more than column_index fields and whose field equals target_value, in
\* their original order and multiplicity; shorter rows are left out.
C1_FilterSelectsMatchingRows ==
    (FilterCalled /\ ValidCall) =>
        /\ raised = "None"
        /\ filtered_data # 0
        /\ \A j \in 1 .. Len(heap[filtered_data]) :
              /\ Len(heap[filtered_data][j]) > column_index
              /\ heap[filtered_data][j][column_index + 1] = target_value
        /\ IsSubsequenceAt(heap[filtered_data], input_before,
                           QualifyingPositions(input_before, column_index, target_value))

\* a valid call on a Table with a matching row, a non-matching row and a row
\* too short to hold the column
C1_Witness ==
    /\ pc = "filter_returned"
    /\ ValidCall
    /\ Len(heap[filtered_data]) = 1
    /\ Len(input_before) = 3
    /\ \E k \in 1 .. Len(input_before) : Len(input_before[k]) <= column_index
    /\ \E k \in 1 .. Len(input_before) :
          Len(input_before[k]) > column_index /\ input_before[k][column_index + 1] # target_value

\* C2: a negative column index makes filter_by_column fail with ValueError
\* and return no Table, for every Table, empty or not.
C2_NegativeIndexRaises ==
    (FilterCalled /\ column_index < 0) => (raised = "ValueError" /\ filtered_data = 0)

\* C3: for a non-empty Table and column_index >= width of the first row,
\* filter_by_column fails with IndexError and returns no Table, whatever
\* the later rows hold.
C3_IndexBeyondFirstRowRaises ==
    (FilterCalled /\ input_before # <<>> /\ column_index >= Len(input_before[1])) =>
        (raised = "IndexError" /\ filtered_data = 0 /\ pc = "filter_raised")

\* the index is out of range for the first row while a later row holds the
\* target value at that index
C3_Witness ==
    /\ pc = "filter_raised"
    /\ input_before # <<>>
    /\ column_index >= Len(input_before[1])
    /\ QualifyingPositions(input_before, column_index, target_value) # {}

\* C4: filter_by_column never mutates its input: no call, returning or
\* raising, changes the value of a list that existed before it (the input
\* Table included), and a returned list is a new object, none of the lists
\* that existed before the call (so not the input list).
C4_FilterLeavesInputUnchanged ==
    [][/\ \A id \in DOMAIN heap : id \in DOMAIN heap' /\ heap'[id] = heap[id]
       /\ heap'[data] = input_before
       /\ filtered_data' # filtered_data => filtered_data' \notin DOMAIN heap
       /\ filtered_again' # filtered_again => filtered_again' \notin DOMAIN heap]_vars

\* a call that keeps every row of its input and still returns another list
C4_Witness ==
    /\ pc = "filter_returned"
    /\ Len(input_before) = 2
    /\ heap[filtered_data] = input_before
    /\ filtered_data # data

C10_WitnessEmptyResult ==
    /\ pc = "filter_again_done"
    /\ input_before # <<>>
    /\ heap[filtered_data] = <<>>

(***************************************************************************)
(* print_data                                                              *)
(***************************************************************************)

\* "-" * n
RECURSIVE Dashes(_)
Dashes(n) == IF n <= 0 THEN "" ELSE "-" \o Dashes(n - 1)

DigitChar(d) ==
    CASE d = 0 -> "0" [] d = 1 -> "1" [] d = 2 -> "2" [] d = 3 -> "3" [] d = 4 -> "4"
      [] d = 5 -> "5" [] d = 6 -> "6" [] d = 7 -> "7" [] d = 8 -> "8" [] d = 9 -> "9"

\* str(n) for n >= 0, as the format specifier d and the f-string {n} give it
RECURSIVE ToDecimal(_)
ToDecimal(n) == IF n < 10 THEN DigitChar(n) ELSE ToDecimal(n \div 10) \o DigitChar(n % 10)

\* right-justify s in a field of width w, padding with spaces (never cutting)
RECURSIVE PadLeft(_, _)
PadLeft(s, w) == IF Len(s) >= w THEN s ELSE PadLeft(" " \o s, w)

\* f"{n:3d}"
Format3d(n) == PadLeft(ToDecimal(n), 3)

\* sep.join(row)
RECURSIVE Join(_, _)
Join(sep, row) ==
    IF row = <<>> THEN ""
    ELSE IF Len(row) = 1 THEN row[1]
    ELSE row[1] \o sep \o Join(sep, Tail(row))

\* f"{i+1:3d}: {', '.join(row)}" for the row at 0-based position i
RowLine(i, row) == Format3d(i + 1) \o ": " \o Join(", ", row)

\* A faulty variant of print_data: rows numbered from 0.
print_data_zero_based(T, t) ==
    <<"", t \o ":", Dashes(Len(t))>>
    \o (IF T = <<>> THEN <<"No data to display">>
        ELSE [k \in 1 .. Len(T) |-> Format3d(k - 1) \o ": " \o Join(", ", T[k])])

\* The lines print_data(data, title) writes, in order.  print(f"\n{title}:")
\* writes an empty line and then the title followed by a colon.
print_data(T, t) ==
    <<"", t \o ":", Dashes(Len(t))>>
    \o (IF T = <<>> THEN <<"No data to display">>
        ELSE [k \in 1 .. Len(T) |-> RowLine(k - 1, T[k])])

(***************************************************************************)
(* Specification SpecPrint: print_data applied to every bounded Table and  *)
(* title.                                                                  *)
(***************************************************************************)
Titles == {"", "Data", "Original Data"}

InitPrint ==
    /\ pc = "print_call"
    /\ \E T \in Tables : heap = <<T>> /\ input_before = T
    /\ data = 1
    /\ title \in Titles
    /\ column_index = 0
    /\ target_value = ""
    /\ filtered_data = 0
    /\ raised = "None"
    /\ filtered_again = 0
    /\ raised_again = "None"
    /\ stdout = <<>>
    /\ log = <<>>
    /\ calls = <<>>
    /\ path_kind = "file"
    /\ file_rows = <<>>
    /\ file_fault = "None"
    /\ file_open = FALSE
    /\ rows_read = <<>>

PrintCall ==
    /\ pc = "print_call"
    /\ stdout' = stdout \o print_data(heap[data], title)
    /\ calls' = Append(calls, "print_data")
    /\ pc' = "print_done"
    /\ UNCHANGED <<heap, data, column_index, target_value, filtered_data, raised,
                   input_before, filtered_again, raised_again, title, log,
                   path_kind, file_rows, file_fault, file_open, rows_read>>

NextPrint == PrintCall

SpecPrint == InitPrint /\ [][NextPrint]_vars

\* C8: print_data writes the title line and then an underline of exactly
\* len(title) dashes; for an empty Table the only line after them is
\* "No data to display"; for a non-empty Table it writes one line per row,
\* in Table order, the k-th numbered k (from 1) with the fields joined by
\* ", ", and never "No data to display".
C8_PrintDataLayout ==
    pc = "print_done" =>
        /\ Len(stdout) >= 3
        /\ stdout[1] = ""
        /\ stdout[2] = title \o ":"
        /\ Len(stdout[3]) = Len(title)
        /\ stdout[3] \in {Dashes(n) : n \in 0 .. Len(title)}
        /\ heap[data] = <<>> => stdout = <<"", title \o ":", stdout[3], "No data to display">>
        /\ heap[data] # <<>> =>
              /\ Len(stdout) = 3 + Len(heap[data])
              /\ \A k \in 1 .. Len(heap[data]) :
                    /\ stdout[3 + k] = Format3d(k) \o ": " \o Join(", ", heap[data][k])
                    /\ stdout[3 + k] # "No data to display"

\* a Table of three rows, the second with two fields, under the title "Data"
C8_Witness ==
    /\ pc = "print_done"
    /\ title = "Data"
    /\ Len(heap[data]) = 3
    /\ stdout[3] = "----"
    /\ stdout[5] = "  2: Books, books"

\* an empty Table
C8_WitnessEmpty ==
    /\ pc = "print_done"
    /\ heap[data] = <<>>
    /\ stdout[4] = "No data to display"

(***************************************************************************)
(* read_csv and main.  Specification Spec is one run of main(): the file   *)
(* system state at the path and the file's contents are drawn by Init.     *)
(* The csv.reader is taken as an iterator that yields file_rows in order   *)
(* and then either ends or fails with file_fault.                          *)
(***************************************************************************)
MaxFileRows == 2
MaxFileWidth == 3

FileTables == SeqsUpTo(SeqsUpTo(Fields, MaxFileWidth), MaxFileRows)

\* main's configuration
csv_file == "sales.csv"
filter_column == 2
filter_value == "Books"

PathKinds == {"missing", "directory", "unreadable", "file"}
FileFaults == {"None", "UnicodeDecodeError", "csv.Error"}

\* the OSError open() raises on a path that exists and cannot be opened for
\* reading; which one a directory gives depends on the platform
OpenErrors(kind) ==
    IF kind = "directory" THEN {"IsADirectoryError", "PermissionError"} ELSE {"PermissionError"}

\* str(e) of each exception the run can meet
Message(e) ==
    CASE e = "FileNotFoundError" -> "The file " \o csv_file \o " does not exist"
      [] e = "IsADirectoryError" -> "[Errno 21] Is a directory: '" \o csv_file \o "'"
      [] e = "PermissionError" -> "[Errno 13] Permission denied: '" \o csv_file \o "'"
      [] e = "UnicodeDecodeError" -> "'utf-8' codec can't decode byte 0xff in position 0: invalid start byte"
      [] e = "csv.Error" -> "unexpected end of data"
      [] e = "IndexError" -> "Column index " \o ToDecimal(filter_column) \o " is out of range"
      [] e = "ValueError" -> "Column index must be non-negative"

ExceptionNames == {"FileNotFoundError", "IsADirectoryError", "PermissionError",
                   "UnicodeDecodeError", "csv.Error", "IndexError", "ValueError"}

Init ==
    /\ pc = "main_start"
    /\ path_kind \in PathKinds
    /\ file_rows \in (IF path_kind = "file" THEN FileTables ELSE {<<>>})
    /\ file_fault \in (IF path_kind = "file" THEN FileFaults ELSE {"None"})
    /\ file_open = FALSE
    /\ rows_read = <<>>
    /\ heap = <<>>
    /\ data = 0
    /\ column_index = filter_column
    /\ target_value = filter_value
    /\ filtered_data = 0
    /\ raised = "None"
    /\ input_before = <<>>
    /\ filtered_again = 0
    /\ raised_again = "None"
    /\ title = ""
    /\ stdout = <<>>
    /\ log = <<>>
    /\ calls = <<>>

\* what no step of main changes
MainFrame == UNCHANGED <<column_index, target_value, input_before, filtered_again,
                         raised_again, title, path_kind, file_rows, file_fault>>

\* main, lines 116-125: log the start and call read_csv(csv_file)
MainStart ==
    /\ pc = "main_start"
    /\ log' = Append(log, <<"INFO", "Starting CSV processing">>)
    /\ calls' = Append(calls, "read_csv")
    /\ pc' = "read_exists"
    /\ UNCHANGED <<heap, data, filtered_data, raised, stdout, file_open, rows_read>>
    /\ MainFrame

\* read_csv, lines 35-39: Path.exists() is false only when nothing is at the path
ReadCsvExists ==
    /\ pc = "read_exists"
    /\ IF path_kind = "missing"
       THEN /\ log' = Append(log, <<"ERROR", "File not found">>)
            /\ raised' = "FileNotFoundError"
            /\ pc' = "main_except"
       ELSE /\ pc' = "read_open"
            /\ UNCHANGED <<log, raised>>
    /\ UNCHANGED <<heap, data, filtered_data, stdout, calls, file_open, rows_read>>
    /\ MainFrame

\* read_csv, line 42: file_path.open(); on a directory or an unreadable file
\* open() raises an OSError that neither except clause of read_csv names
ReadCsvOpen ==
    /\ pc = "read_open"
    /\ IF path_kind = "file"
       THEN /\ file_open' = TRUE
            /\ pc' = "read_rows"
            /\ UNCHANGED raised
       ELSE /\ raised' \in OpenErrors(path_kind)
            /\ pc' = "main_except"
            /\ UNCHANGED file_open
    /\ UNCHANGED <<heap, data, filtered_data, stdout, log, calls, rows_read>>
    /\ MainFrame

\* read_csv, line 44: one iteration of the comprehension over the reader
ReadCsvRow ==
    /\ pc = "read_rows"
    /\ Len(rows_read) < Len(file_rows)
    /\ rows_read' = Append(rows_read, file_rows[Len(rows_read) + 1])
    /\ UNCHANGED <<pc, heap, data, filtered_data, raised, stdout, log, calls, file_open>>
    /\ MainFrame

\* read_csv, lines 44-46: the reader is exhausted; log the count and return
\* data, which leaves the with block
ReadCsvEnd ==
    /\ pc = "read_rows"
    /\ Len(rows_read) = Len(file_rows)
    /\ file_fault = "None"
    /\ log' = Append(log, <<"INFO", "Successfully read rows">>)
    /\ pc' = "read_exit"
    /\ UNCHANGED <<heap, data, filtered_data, raised, stdout, calls, file_open, rows_read>>
    /\ MainFrame

\* a faulty variant: the error leaves read_csv without passing the with block's exit
\* (as old_code.py, whose f.close() follows the loop)
ReadCsvFault_no_close ==
    /\ pc = "read_rows"
    /\ Len(rows_read) = Len(file_rows)
    /\ file_fault # "None"
    /\ raised' = file_fault
    /\ log' = Append(log, <<"ERROR", IF file_fault = "csv.Error" THEN "CSV parsing error"
                                     ELSE "Encoding error reading">>)
    /\ pc' = "main_except"
    /\ UNCHANGED <<heap, data, filtered_data, stdout, calls, file_open, rows_read>>
    /\ MainFrame

\* read_csv, line 44: the reader raises UnicodeDecodeError or csv.Error
\* inside the with block
ReadCsvFault ==
    /\ pc = "read_rows"
    /\ Len(rows_read) = Len(file_rows)
    /\ file_fault # "None"
    /\ raised' = file_fault
    /\ pc' = "read_exit"
    /\ UNCHANGED <<heap, data, filtered_data, stdout, log, calls, file_open, rows_read>>
    /\ MainFrame

\* read_csv, lines 42-52 and main line 125: the with block's exit closes the
\* file on a return and on an exception alike; then either the except clause
\* logs the error and re-raises it, or the list built is returned and bound
\* to main's data
ReadCsvExit ==
    /\ pc = "read_exit"
    /\ file_open' = FALSE
    /\ IF raised # "None"
       THEN /\ log' = Append(log, <<"ERROR", IF raised = "csv.Error" THEN "CSV parsing error"
                                            ELSE "Encoding error reading">>)
            /\ pc' = "main_except"
            /\ UNCHANGED <<heap, data>>
       ELSE /\ heap' = Alloc(heap, rows_read).heap
            /\ data' = Alloc(heap, rows_read).id
            /\ pc' = "main_check"
            /\ UNCHANGED log
    /\ UNCHANGED <<filtered_data, raised, stdout, calls, rows_read>>
    /\ MainFrame

\* a faulty variant: main without the early return on an empty Table
MainCheckEmpty_no_return ==
    /\ pc = "main_check"
    /\ calls' = Append(calls, "print_data")
    /\ stdout' = stdout \o print_data(heap[data], "Original Data")
    /\ pc' = "main_filter"
    /\ UNCHANGED <<heap, data, filtered_data, raised, log, file_open, rows_read>>
    /\ MainFrame

\* main, lines 127-132: return with a warning when no row was read, else
\* print the original data
MainCheckEmpty ==
    /\ pc = "main_check"
    /\ IF heap[data] = <<>>
       THEN /\ log' = Append(log, <<"WARNING", "No data found in CSV file">>)
            /\ pc' = "main_done"
            /\ UNCHANGED <<stdout, calls>>
       ELSE /\ calls' = Append(calls, "print_data")
            /\ stdout' = stdout \o print_data(heap[data], "Original Data")
            /\ pc' = "main_filter"
            /\ UNCHANGED log
    /\ UNCHANGED <<heap, data, filtered_data, raised, file_open, rows_read>>
    /\ MainFrame

\* main, line 135: filter_by_column(data, filter_column, filter_value)
MainFilter ==
    /\ pc = "main_filter"
    /\ calls' = Append(calls, "filter_by_column")
    /\ LET r == filter_by_column(heap, data, filter_column, filter_value)
       IN  /\ heap' = r.heap
           /\ filtered_data' = r.ret
           /\ raised' = r.raised
           /\ log' = log \o r.log
           /\ pc' = IF r.raised = "None" THEN "main_print_filtered" ELSE "main_except"
    /\ UNCHANGED <<data, stdout, file_open, rows_read>>
    /\ MainFrame

FilteredTitle ==
    "Filtered Data (Column " \o ToDecimal(filter_column) \o " = '" \o filter_value \o "')"

\* main, lines 138-140: print the filtered data and log the completion
MainPrintFiltered ==
    /\ pc = "main_print_filtered"
    /\ calls' = Append(calls, "print_data")
    /\ stdout' = stdout \o print_data(heap[filtered_data], FilteredTitle)
    /\ log' = Append(log, <<"INFO", "CSV processing completed successfully">>)
    /\ pc' = "main_done"
    /\ UNCHANGED <<heap, data, filtered_data, raised, file_open, rows_read>>
    /\ MainFrame

\* a faulty variant: main without the final `except Exception` clause
MainExcept_no_catch_all ==
    /\ pc = "main_except"
    /\ IF raised = "FileNotFoundError"
       THEN /\ log' = Append(log, <<"ERROR", "File error: " \o Message(raised)>>)
            /\ stdout' = Append(stdout, "Error: " \o Message(raised))
            /\ pc' = "main_done"
       ELSE IF raised \in {"csv.Error", "UnicodeDecodeError", "IndexError", "ValueError"}
       THEN /\ log' = Append(log, <<"ERROR", "Processing error: " \o Message(raised)>>)
            /\ stdout' = Append(stdout, "Error: " \o Message(raised))
            /\ pc' = "main_done"
       ELSE /\ pc' = "main_escaped"
            /\ UNCHANGED <<log, stdout>>
    /\ UNCHANGED <<heap, data, filtered_data, raised, calls, file_open, rows_read>>
    /\ MainFrame

\* main, lines 142-150: the except clauses, tried in order; every exception
\* of the run is an instance of Exception, so the last clause takes what the
\* first two do not name
MainExcept ==
    /\ pc = "main_except"
    /\ IF raised = "FileNotFoundError"
       THEN /\ log' = Append(log, <<"ERROR", "File error: " \o Message(raised)>>)
            /\ stdout' = Append(stdout, "Error: " \o Message(raised))
       ELSE IF raised \in {"csv.Error", "UnicodeDecodeError", "IndexError", "ValueError"}
       THEN /\ log' = Append(log, <<"ERROR", "Processing error: " \o Message(raised)>>)
            /\ stdout' = Append(stdout, "Error: " \o Message(raised))
       ELSE /\ log' = Append(log, <<"ERROR", "Unexpected error: " \o Message(raised)>>)
            /\ stdout' = Append(stdout, "Unexpected error: " \o Message(raised))
    /\ pc' = "main_done"
    /\ UNCHANGED <<heap, data, filtered_data, raised, calls, file_open, rows_read>>
    /\ MainFrame

Next ==
    \/ MainStart
    \/ ReadCsvExists
    \/ ReadCsvOpen
    \/ ReadCsvRow
    \/ ReadCsvEnd
    \/ ReadCsvFault
    \/ ReadCsvExit
    \/ MainCheckEmpty
    \/ MainFilter
    \/ MainPrintFiltered
    \/ MainExcept

Spec == Init /\ [][Next]_vars

(***************************************************************************)
(* Properties of read_csv and main, checked under Spec.                    *)
(***************************************************************************)
\* read_csv has returned to main or raised into it
ReadCsvFinished ==
    pc \in {"main_check", "main_filter", "main_print_filtered", "main_except",
            "main_done", "main_escaped"}

\* how many entries of sequence q lie in set S
Count(q, S) == Cardinality({k \in 1 .. Len(q) : q[k] \in S})

\* the messages main's except clauses print and log
ErrorLines == {p \o Message(e) : p \in {"Error: ", "Unexpected error: "}, e \in ExceptionNames}
MainErrorRecords ==
    {<<"ERROR", p \o Message(e)>> :
        p \in {"File error: ", "Processing error: ", "Unexpected error: "}, e \in ExceptionNames}

\* C5: read_csv fails with FileNotFoundError, and returns no Table, whenever
\* the path is not an existing file: when nothing is at the path and when
\* the path is a directory.
C5_NotAFileRaisesNotFound ==
    (ReadCsvFinished /\ path_kind \in {"missing", "directory"}) =>
        (raised = "FileNotFoundError" /\ data = 0)

\* C6: no error escapes main: an error raised by read_csv or
\* filter_by_column is on its way to main's except clauses or was handled
\* there; once handled, main has logged it once at error level, printed
\* one error message (the last line written), called no component a second
\* time, and has returned.
C6_MainCatchesEveryError ==
    /\ pc # "main_escaped"
    /\ raised # "None" => pc \in {"read_exit", "main_except", "main_done"}
    /\ (pc = "main_done" /\ raised # "None") =>
          /\ Count(log, MainErrorRecords) = 1
          /\ log[Len(log)] \in MainErrorRecords
          /\ Count(stdout, ErrorLines) = 1
          /\ stdout[Len(stdout)] \in {p \o Message(raised) : p \in {"Error: ", "Unexpected error: "}}
          /\ Count(calls, {"read_csv"}) = 1
          /\ Count(calls, {"filter_by_column"}) <= 1
          /\ filtered_data = 0
    /\ (pc # "main_done" \/ raised = "None") =>
          (Count(stdout, ErrorLines) = 0 /\ Count(log, MainErrorRecords) = 0)

\* filter_by_column raised IndexError after the original data was printed
C6_Witness ==
    /\ pc = "main_done"
    /\ raised = "IndexError"
    /\ Len(stdout) > 1
    /\ stdout[Len(stdout)] = "Error: Column index 2 is out of range"

\* an exception none of the named except clauses lists
C6_WitnessUnexpected ==
    /\ pc = "main_done"
    /\ raised = "IsADirectoryError"
    /\ stdout = <<"Unexpected error: [Errno 21] Is a directory: 'sales.csv'">>

\* C7: the file opened by read_csv is closed on every exit path: it is open
\* only while read_csv is inside its with block, and never once read_csv
\* has returned or raised.
C7_FileClosedOnEveryExit ==
    /\ ReadCsvFinished => ~file_open
    /\ file_open => pc \in {"read_rows", "read_exit"}

\* the reader failed after the file was opened and a row was read
C7_Witness ==
    /\ pc = "main_except"
    /\ raised \in {"UnicodeDecodeError", "csv.Error"}
    /\ rows_read # <<>>
    /\ ~file_open

\* C9 as stated: in a run that raises no error, read_csv, filter_by_column
\* and print_data are each called exactly once, in this order, also when the
\* Table read is empty.
C9_EachComponentOnceInOrder ==
    (pc = "main_done" /\ raised = "None") =>
        calls = <<"read_csv", "filter_by_column", "print_data">>

\* C9 amended: in a run that raises no error and reads a non-empty Table,
\* read_csv and filter_by_column are each called exactly once and print_data
\* twice, in the order read_csv, print_data (the original data),
\* filter_by_column, print_data (the filtered data); when the Table read is
\* empty only read_csv is called.
C9_CallOrderOfMain ==
    (pc = "main_done" /\ raised = "None") =>
        /\ data # 0
        /\ heap[data] = file_rows
        /\ calls = IF heap[data] = <<>> THEN <<"read_csv">>
                   ELSE <<"read_csv", "print_data", "filter_by_column", "print_data">>

\* a run without error on a non-empty Table
C9_Witness ==
    /\ pc = "main_done"
    /\ raised = "None"
    /\ Len(heap[data]) = 2
    /\ Len(calls) = 4

\* a run without error on an empty Table
C9_WitnessEmpty ==
    /\ pc = "main_done"
    /\ raised = "None"
    /\ heap[data] = <<>>
    /\ calls = <<"read_csv">>

====
